---- MODULE Spec2Model ----
(***************************************************************************)
(* Model of the branch-structure auditor, src/config/settings.py:          *)
(* the manifest REQUIRED_STRUCTURE, check_branch (checkout, folder loop,   *)
(* file loop, optional auto-fix) and main (branch enumeration, branch      *)
(* loop, final report).  The working tree is a map from the manifest's     *)
(* paths to what is found there; text that the program parses (the branch  *)
(* listing) is a sequence of one-character strings.                        *)
(***************************************************************************)
EXTENDS Integers, Sequences, FiniteSets, TLC

VARIABLES
    AUTO_FIX,   \* the module-level switch, settings.py:29
    fs,         \* the working tree: path -> what is there
    cur,        \* the branch the working tree is on (a name, or Detached)
    gitListing, \* what `git branch -a` prints in this repository
    pc,         \* where the program is
    caller,     \* who called check_branch: "main" or "harness"
    branches,   \* main's list `branches` (after line 59)
    bi,         \* main's loop position in `branches`
    branch,     \* check_branch's argument
    missing,    \* check_branch's local list `missing`
    fi,         \* check_branch's position in REQUIRED_STRUCTURE.items()
    report,     \* main's dict `report`, in insertion order
    out,        \* what has been printed
    calls,      \* how many times check_branch has been called
    entry,      \* the working tree right after the last checkout
    reached,    \* per manifest folder of the running audit: did it exist when reached
    audits,     \* one record per audit that returned
    cmds,       \* the commands given to run(), in order
    failed      \* a command given to run() has exited non-zero

vars == <<AUTO_FIX, fs, cur, gitListing, pc, caller, branches, bi, branch,
          missing, fi, report, out, calls, entry, reached, audits, cmds, failed>>

-----------------------------------------------------------------------------
(* Bounds of the model *)

\* how many paths may be deleted from the full tree to get an initial tree
MaxMissing == 2
\* how many times the harness calls check_branch
MaxCalls == 2
\* how many lines the branch listing has at most
MaxLines == 3
\* how many single-path deletions a branch switch may choose from
CheckoutVariants == 2

-----------------------------------------------------------------------------
(* The manifest, settings.py:5-27 *)

BaseStructure ==
    << [folder |-> "orchestration", files |-> <<"base_magician.py", "router.py">>],
       [folder |-> "resources/models", files |-> << >>],
       [folder |-> "resources/services", files |-> << >>],
       [folder |-> "lifecycle", files |-> << >>],
       [folder |-> "api", files |-> << >>],
       [folder |-> "config", files |-> <<"settings.py">>],
       [folder |-> "tests", files |-> << >>] >>

MAGICIANS == <<"job", "business", "developer">>

\* REQUIRED_STRUCTURE[folder].append(f)
AppendFile(struct, folder, f) ==
    [i \in DOMAIN struct |->
        IF struct[i].folder = folder
        THEN [struct[i] EXCEPT !.files = Append(@, f)]
        ELSE struct[i]]

\* the body of the loop `for m in MAGICIANS`
AddMagician(struct, m) ==
    LET s1 == AppendFile(struct, "orchestration", m \o "_magician.py")
        s2 == AppendFile(s1, "lifecycle", "vacuum_" \o m \o "_data.py")
        s3 == AppendFile(s2, "lifecycle", "retrain_" \o m \o ".py")
        s4 == AppendFile(s3, "api", "routes_" \o m \o ".py")
        s5 == AppendFile(s4, "tests", "test_" \o m \o "_api.py")
    IN  AppendFile(s5, "tests", "test_" \o m \o "_magician.py")

RECURSIVE BuildStructure(_, _)
BuildStructure(struct, i) ==
    IF i > Len(MAGICIANS) THEN struct
    ELSE BuildStructure(AddMagician(struct, MAGICIANS[i]), i + 1)

REQUIRED_STRUCTURE == BuildStructure(BaseStructure, 1)

NFolders == Len(REQUIRED_STRUCTURE)

-----------------------------------------------------------------------------
(* Paths and the working tree *)

\* os.path.join(folder, f)
JoinPath(folder, f) == folder \o "/" \o f

\* the components of a manifest folder, as os.makedirs walks them
FolderParts(folder) ==
    CASE folder = "resources/models" -> <<"resources", "models">>
      [] folder = "resources/services" -> <<"resources", "services">>
      [] OTHER -> <<folder>>

RECURSIVE JoinParts(_, _)
JoinParts(parts, k) ==
    IF k = 1 THEN parts[1] ELSE JoinPath(JoinParts(parts, k - 1), parts[k])

\* the folder itself and every parent of it
FolderPrefixes(folder) ==
    {JoinParts(FolderParts(folder), k) : k \in 1 .. Len(FolderParts(folder))}

ManifestFolders == {REQUIRED_STRUCTURE[i].folder : i \in 1 .. NFolders}

DirPaths == UNION {FolderPrefixes(F) : F \in ManifestFolders}

FilesOf(i) == REQUIRED_STRUCTURE[i].files

FilePathsOf(i) ==
    {JoinPath(REQUIRED_STRUCTURE[i].folder, FilesOf(i)[j]) : j \in 1 .. Len(FilesOf(i))}

FilePaths == UNION {FilePathsOf(i) : i \in 1 .. NFolders}

AllPaths == DirPaths \cup FilePaths

\* the folders above a path
AncOf ==
    [p \in AllPaths |->
        IF p \in FilePaths
        THEN UNION {FolderPrefixes(REQUIRED_STRUCTURE[i].folder) :
                        i \in {k \in 1 .. NFolders : p \in FilePathsOf(k)}}
        ELSE UNION {FolderPrefixes(F) \ {F} : F \in {G \in ManifestFolders : p \in FolderPrefixes(G)}}
             \ {p}]

NONE == [kind |-> "none"]
DIR == [kind |-> "dir"]
File(content) == [kind |-> "file", content |-> content]

\* what a file that was there before the audit holds
OriginalContent(p) == "original content of " \o p \o "\n"

\* os.path.exists(p)
Exists(fsv, p) == fsv[p].kind # "none"

\* something is at p (for the properties; the program asks Exists)
Present(fsv, p) == fsv[p] # NONE

ExistingPaths(fsv) == {p \in AllPaths : Present(fsv, p)}

\* the full tree with the paths of D, and everything below them, removed
TreeWithout(D) ==
    [p \in AllPaths |->
        IF p \in D \/ AncOf[p] \cap D # {} THEN NONE
        ELSE IF p \in DirPaths THEN DIR
        ELSE File(OriginalContent(p))]

FullTree == TreeWithout({})

RECURSIVE SubsetsUpTo(_, _)
SubsetsUpTo(S, k) ==
    IF k = 0 THEN {{}}
    ELSE LET prev == SubsetsUpTo(S, k - 1)
         IN  prev \cup {d \cup {x} : d \in prev, x \in S}

Trees == {TreeWithout(D) : D \in SubsetsUpTo(AllPaths, MaxMissing)}

-----------------------------------------------------------------------------
(* Text: a string the program parses is a sequence of one-character strings *)

Main == <<"m", "a", "i", "n">>
FeatureX == <<"f", "e", "a", "t", "u", "r", "e", "-", "x">>
FixRemotes == <<"f", "i", "x", "-", "r", "e", "m", "o", "t", "e", "s">>
OriginMain == <<"r", "e", "m", "o", "t", "e", "s", "/", "o", "r", "i", "g", "i", "n", "/", "m", "a", "i", "n">>
DetachedLine == <<"(", "H", "E", "A", "D", " ", "d", "e", "t", "a", "c", "h", "e", "d", " ", "a", "t", " ", "1", "a", "2", "b", ")">>
\* the literal "remotes" of line 59
Remotes == <<"r", "e", "m", "o", "t", "e", "s">>
\* `cur` when HEAD is on no branch
Detached == << >>

IsSpace(c) == c \in {" ", "\n", "\t", "\r"}

RECURSIVE LStrip(_)
LStrip(s) == IF s # << >> /\ IsSpace(Head(s)) THEN LStrip(Tail(s)) ELSE s

RECURSIVE RStrip(_)
RStrip(s) ==
    IF s # << >> /\ IsSpace(s[Len(s)]) THEN RStrip(SubSeq(s, 1, Len(s) - 1)) ELSE s

\* str.strip()
Strip(s) == RStrip(LStrip(s))

\* str.split(sep) for a one-character separator: always at least one piece
RECURSIVE SplitFrom(_, _, _, _)
SplitFrom(s, sep, i, piece) ==
    IF i > Len(s) THEN <<piece>>
    ELSE IF s[i] = sep THEN <<piece>> \o SplitFrom(s, sep, i + 1, << >>)
    ELSE SplitFrom(s, sep, i + 1, Append(piece, s[i]))

Split(s, sep) == SplitFrom(s, sep, 1, << >>)

\* sub in s
Contains(s, sub) ==
    \E i \in 1 .. (Len(s) - Len(sub) + 1) : SubSeq(s, i, i + Len(sub) - 1) = sub

\* s.replace(c, "") for a one-character c
RemoveChar(s, c) == SelectSeq(s, LAMBDA x : x # c)

-----------------------------------------------------------------------------
(* The repository that git shows: the entries of `git branch -a` *)

LocalEntry(name) == [kind |-> "local", name |-> name]
RemoteEntry(name) == [kind |-> "remote", name |-> name]
DetachedEntry == [kind |-> "detached", name |-> DetachedLine]

LocalPool == {LocalEntry(Main), LocalEntry(FeatureX), LocalEntry(FixRemotes)}
RemotePool == {RemoteEntry(OriginMain)}

\* the local branch names of a listing, in listing order
LocalEntries(listing) == SelectSeq(listing.entries, LAMBDA e : e.kind = "local")
LocalNames(listing) == [i \in DOMAIN LocalEntries(listing) |-> LocalEntries(listing)[i].name]
LocalNameSet(listing) == {LocalNames(listing)[i] : i \in DOMAIN LocalNames(listing)}

\* the name of the entry git marks with "*", as `cur` holds it
CurrentOf(listing) ==
    IF listing.entries = << >> THEN Detached
    ELSE IF listing.entries[listing.current].kind = "local"
         THEN listing.entries[listing.current].name
         ELSE Detached

\* the sequences of at most k elements of S
RECURSIVE SeqsUpTo(_, _)
SeqsUpTo(S, k) ==
    IF k = 0 THEN {<< >>}
    ELSE LET prev == SeqsUpTo(S, k - 1)
         IN  prev \cup {Append(q, x) : q \in prev, x \in S}

NoRepeat(q) == \A i, j \in DOMAIN q : q[i] = q[j] => i = j

\* git lists a detached HEAD first and marks exactly one entry: the detached HEAD,
\* or else the current local branch
WellFormed(listing) ==
    LET es == listing.entries
    IN  /\ NoRepeat(es)
        /\ \A i \in DOMAIN es : es[i].kind = "detached" => i = 1
        /\ IF es = << >> THEN listing.current = 0
           ELSE /\ listing.current \in DOMAIN es
                /\ es[listing.current].kind # "remote"
                /\ es[1].kind = "detached" => listing.current = 1

Listings ==
    {l \in [entries : SeqsUpTo(LocalPool \cup RemotePool \cup {DetachedEntry}, MaxLines),
            current : 0 .. MaxLines] : WellFormed(l)}

\* one line of the listing as git prints it
RenderLine(e, isCurrent) ==
    (IF isCurrent THEN <<"*", " ">> ELSE <<" ", " ">>) \o e.name \o <<"\n">>

RECURSIVE RenderFrom(_, _)
RenderFrom(listing, i) ==
    IF i > Len(listing.entries) THEN << >>
    ELSE RenderLine(listing.entries[i], i = listing.current) \o RenderFrom(listing, i + 1)

\* the standard output of `git branch -a`
Render(listing) == RenderFrom(listing, 1)

\* run(cmd): the command's output, stripped
RunOutput(raw) == Strip(raw)

\* lines 58-59
ParseBranches(text) ==
    LET lines == Split(text, "\n")
        kept == SelectSeq(lines, LAMBDA b : ~Contains(b, Remotes))
    IN  [i \in DOMAIN kept |-> Strip(RemoveChar(kept[i], "*"))]

-----------------------------------------------------------------------------
(* check_branch, settings.py:34-55 *)

\* line 42
MissingFolderEntry(folder) == "Missing folder: " \o folder
\* line 50
MissingFileEntry(path) == "Missing file: " \o path
\* mutant: the f prefix of the string literal is forgotten
PlaceholderNoFormat(f) == "# Auto-generated placeholder for {f}\n"

\* line 53: what auto-fix writes into a missing file f
Placeholder(f) == "# Auto-generated placeholder for " \o f \o "\n"

\* os.makedirs(folder, exist_ok=True): the folder and every missing parent
MakeDirs(fsv, folder) ==
    [p \in AllPaths |->
        IF p \in FolderPrefixes(folder) /\ ~Exists(fsv, p) THEN DIR ELSE fsv[p]]

\* open(path, "w") ... fp.write(content)
WriteFile(fsv, path, content) == [fsv EXCEPT ![path] = File(content)]

\* mutant: the test of AUTO_FIX at line 51 is dropped
CheckFileAlwaysFix(st, folder, f, autofix) ==
    LET path == JoinPath(folder, f)
    IN  IF ~Exists(st.fs, path)
        THEN [fs |-> WriteFile(st.fs, path, "# Auto-generated placeholder for " \o f \o "\n"),
              missing |-> Append(st.missing, "Missing file: " \o path)]
        ELSE st

\* mutant: the write of lines 51-53 is outside the test of line 49
CheckFileOverwrite(st, folder, f, autofix) ==
    LET path == JoinPath(folder, f)
    IN  [fs |-> IF autofix
                THEN WriteFile(st.fs, path, "# Auto-generated placeholder for " \o f \o "\n")
                ELSE st.fs,
         missing |-> IF ~Exists(st.fs, path)
                     THEN Append(st.missing, "Missing file: " \o path)
                     ELSE st.missing]

\* mutant: line 49 tests the folder instead of the path
CheckFileTestsFolder(st, folder, f, autofix) ==
    LET path == JoinPath(folder, f)
    IN  IF Exists(st.fs, folder)
        THEN [fs |-> IF autofix
                     THEN WriteFile(st.fs, path, "# Auto-generated placeholder for " \o f \o "\n")
                     ELSE st.fs,
              missing |-> Append(st.missing, "Missing file: " \o path)]
        ELSE st

\* lines 48-53: one pass of the file loop; st is [fs, missing]
CheckFile(st, folder, f, autofix) ==
    LET path == JoinPath(folder, f)
    IN  IF ~Exists(st.fs, path)
        THEN [fs |-> IF autofix THEN WriteFile(st.fs, path, Placeholder(f)) ELSE st.fs,
              missing |-> Append(st.missing, MissingFileEntry(path))]
        ELSE st

\* lines 47-53: the file loop from position j on
RECURSIVE CheckFiles(_, _, _, _, _)
CheckFiles(st, folder, files, j, autofix) ==
    IF j > Len(files) THEN st
    ELSE CheckFiles(CheckFile(st, folder, files[j], autofix), folder, files, j + 1, autofix)

\* mutant: with auto-fix the folder is created and not reported
FolderAbsentStepQuietFix(st, i, autofix) ==
    LET folder == REQUIRED_STRUCTURE[i].folder
    IN  IF autofix
        THEN [fs |-> MakeDirs(st.fs, folder), missing |-> st.missing]
        ELSE [fs |-> st.fs, missing |-> Append(st.missing, "Missing folder: " \o folder)]

\* mutant: with auto-fix the `continue` of line 45 is not taken
FolderAbsentStepThenFiles(st, i, autofix) ==
    LET folder == REQUIRED_STRUCTURE[i].folder
        rep == [fs |-> IF autofix THEN MakeDirs(st.fs, folder) ELSE st.fs,
                missing |-> Append(st.missing, "Missing folder: " \o folder)]
    IN  IF autofix THEN CheckFiles(rep, folder, FilesOf(i), 1, autofix) ELSE rep

\* lines 41-45: the folder does not exist; report, maybe create, continue
FolderAbsentStep(st, i, autofix) ==
    LET folder == REQUIRED_STRUCTURE[i].folder
    IN  [fs |-> IF autofix THEN MakeDirs(st.fs, folder) ELSE st.fs,
         missing |-> Append(st.missing, MissingFolderEntry(folder))]

\* lines 47-53: the folder exists; check its files
FolderPresentStep(st, i, autofix) ==
    CheckFiles(st, REQUIRED_STRUCTURE[i].folder, FilesOf(i), 1, autofix)

\* the trees a switch to another branch may leave in the working directory
SwitchCandidates == <<"orchestration", "config/settings.py", "resources", "tests/test_job_api.py">>

CheckoutTrees ==
    {FullTree} \cup
    {TreeWithout({SwitchCandidates[i]}) :
        i \in 1 .. (IF CheckoutVariants < Len(SwitchCandidates)
                    THEN CheckoutVariants ELSE Len(SwitchCandidates))}

Banner(b) == [kind |-> "banner", branch |-> b]

\* lines 35-38, `git checkout` succeeds: only a local branch can be checked out;
\* checking out the branch the tree is on changes nothing
CheckoutOk ==
    /\ pc = "checkout"
    /\ branch \in LocalNameSet(gitListing)
    /\ IF branch = cur THEN fs' = fs ELSE fs' \in CheckoutTrees
    /\ cur' = branch
    /\ entry' = fs'
    /\ missing' = << >>
    /\ reached' = << >>
    /\ fi' = 1
    /\ pc' = "folders"
    /\ cmds' = Append(cmds, [cmd |-> "checkout", branch |-> branch])
    /\ UNCHANGED <<AUTO_FIX, gitListing, caller, branches, bi, branch, report, out, calls, audits, failed>>

\* mutant: a failed checkout is caught and the loop goes on to the next branch
CheckoutFailSkips ==
    /\ pc = "checkout"
    /\ caller = "main"
    /\ pc' = "loop"
    /\ bi' = bi + 1
    /\ cmds' = Append(cmds, [cmd |-> "checkout", branch |-> branch])
    /\ failed' = TRUE
    /\ UNCHANGED <<AUTO_FIX, fs, cur, gitListing, caller, branches, branch, missing,
                   fi, report, out, calls, entry, reached, audits>>

\* line 36, `git checkout` exits non-zero: run raises, nothing catches it
CheckoutFail ==
    /\ pc = "checkout"
    /\ pc' = "aborted"
    /\ cmds' = Append(cmds, [cmd |-> "checkout", branch |-> branch])
    /\ failed' = TRUE
    /\ UNCHANGED <<AUTO_FIX, fs, cur, gitListing, caller, branches, bi, branch, missing,
                   fi, report, out, calls, entry, reached, audits>>

\* lines 40-45: the next folder of the manifest does not exist
FolderMissing ==
    /\ pc = "folders"
    /\ fi <= NFolders
    /\ ~Exists(fs, REQUIRED_STRUCTURE[fi].folder)
    /\ LET st == FolderAbsentStep([fs |-> fs, missing |-> missing], fi, AUTO_FIX)
       IN  fs' = st.fs /\ missing' = st.missing
    /\ reached' = Append(reached, FALSE)
    /\ fi' = fi + 1
    /\ UNCHANGED <<AUTO_FIX, cur, gitListing, pc, caller, branches, bi, branch, report,
                   out, calls, entry, audits, cmds, failed>>

\* lines 40-41, 47-53: the next folder of the manifest exists
FolderPresent ==
    /\ pc = "folders"
    /\ fi <= NFolders
    /\ Exists(fs, REQUIRED_STRUCTURE[fi].folder)
    /\ LET st == FolderPresentStep([fs |-> fs, missing |-> missing], fi, AUTO_FIX)
       IN  fs' = st.fs /\ missing' = st.missing
    /\ reached' = Append(reached, TRUE)
    /\ fi' = fi + 1
    /\ UNCHANGED <<AUTO_FIX, cur, gitListing, pc, caller, branches, bi, branch, report,
                   out, calls, entry, audits, cmds, failed>>

\* what is recorded of an audit when it returns
AuditRecord ==
    [branch |-> branch, before |-> entry, after |-> fs, missing |-> missing,
     reached |-> reached, call |-> calls]

-----------------------------------------------------------------------------
(* main, settings.py:57-69 *)

\* report[k] = v on a dict kept in insertion order
DictSet(d, k, v) ==
    IF \E i \in DOMAIN d : d[i].branch = k
    THEN [i \in DOMAIN d |-> IF d[i].branch = k THEN [branch |-> k, missing |-> v] ELSE d[i]]
    ELSE Append(d, [branch |-> k, missing |-> v])

\* lines 58-61: the listing succeeds
ListOk ==
    /\ pc = "main"
    /\ branches' = ParseBranches(RunOutput(Render(gitListing)))
    /\ report' = << >>
    /\ bi' = 1
    /\ pc' = "loop"
    /\ cmds' = Append(cmds, [cmd |-> "branch -a"])
    /\ UNCHANGED <<AUTO_FIX, fs, cur, gitListing, caller, branch, missing, fi, out, calls,
                   entry, reached, audits, failed>>

\* line 58: `git branch -a` exits non-zero
ListFail ==
    /\ pc = "main"
    /\ pc' = "aborted"
    /\ cmds' = Append(cmds, [cmd |-> "branch -a"])
    /\ failed' = TRUE
    /\ UNCHANGED <<AUTO_FIX, fs, cur, gitListing, caller, branches, bi, branch, missing,
                   fi, report, out, calls, entry, reached, audits>>

\* lines 63-65, 35: a non-empty name: call check_branch, which prints its banner
LoopCall ==
    /\ pc = "loop"
    /\ bi <= Len(branches)
    /\ branches[bi] # << >>
    /\ branch' = branches[bi]
    /\ out' = Append(out, Banner(branches[bi]))
    /\ calls' = calls + 1
    /\ pc' = "checkout"
    /\ UNCHANGED <<AUTO_FIX, fs, cur, gitListing, caller, branches, bi, missing, fi,
                   report, entry, reached, audits, cmds, failed>>

\* lines 63-64: an empty name is skipped
LoopSkip ==
    /\ pc = "loop"
    /\ bi <= Len(branches)
    /\ branches[bi] = << >>
    /\ bi' = bi + 1
    /\ UNCHANGED <<AUTO_FIX, fs, cur, gitListing, pc, caller, branches, branch, missing,
                   fi, report, out, calls, entry, reached, audits, cmds, failed>>

\* mutant: lines 68-69 are indented into the loop body
ReturnToMainPrints ==
    /\ pc = "folders"
    /\ fi > NFolders
    /\ caller = "main"
    /\ report' = DictSet(report, branch, missing)
    /\ out' = out \o <<[kind |-> "header"], [kind |-> "report", report |-> report']>>
    /\ audits' = Append(audits, AuditRecord)
    /\ bi' = bi + 1
    /\ pc' = "loop"
    /\ UNCHANGED <<AUTO_FIX, fs, cur, gitListing, caller, branches, branch, missing, fi,
                   calls, entry, reached, cmds, failed>>

\* lines 55, 65-66: check_branch returns to main, which stores the list
ReturnToMain ==
    /\ pc = "folders"
    /\ fi > NFolders
    /\ caller = "main"
    /\ report' = DictSet(report, branch, missing)
    /\ audits' = Append(audits, AuditRecord)
    /\ bi' = bi + 1
    /\ pc' = "loop"
    /\ UNCHANGED <<AUTO_FIX, fs, cur, gitListing, caller, branches, branch, missing, fi,
                   out, calls, entry, reached, cmds, failed>>

\* lines 68-69: the loop is over
EmitReport ==
    /\ pc = "loop"
    /\ bi > Len(branches)
    /\ out' = out \o <<[kind |-> "header"], [kind |-> "report", report |-> report]>>
    /\ pc' = "done"
    /\ UNCHANGED <<AUTO_FIX, fs, cur, gitListing, caller, branches, bi, branch, missing,
                   fi, report, calls, entry, reached, audits, cmds, failed>>

\* the trees the run may start on
InitTreesMain == CheckoutTrees

Init ==
    /\ AUTO_FIX \in BOOLEAN
    /\ gitListing \in Listings
    /\ cur = CurrentOf(gitListing)
    /\ fs \in InitTreesMain
    /\ pc = "main"
    /\ caller = "main"
    /\ branches = << >>
    /\ bi = 0
    /\ branch = << >>
    /\ missing = << >>
    /\ fi = 0
    /\ report = << >>
    /\ out = << >>
    /\ calls = 0
    /\ entry = fs
    /\ reached = << >>
    /\ audits = << >>
    /\ cmds = << >>
    /\ failed = FALSE

Next ==
    \/ ListOk
    \/ ListFail
    \/ LoopCall
    \/ LoopSkip
    \/ CheckoutOk
    \/ CheckoutFail
    \/ FolderMissing
    \/ FolderPresent
    \/ ReturnToMain
    \/ EmitReport

\* a run of main
Spec == Init /\ [][Next]_vars

-----------------------------------------------------------------------------
(* check_branch called directly, several times in a row on one branch, on any
   working tree *)

\* the branch the direct calls audit
AuditTarget == Main

\* the repository of the direct calls: branches main and feature-x, on either
AuditListings ==
    {[entries |-> <<LocalEntry(Main), LocalEntry(FeatureX)>>, current |-> c] : c \in {1, 2}}

\* line 34-35: a direct call of check_branch(b)
AuditCall ==
    /\ pc = "idle"
    /\ calls < MaxCalls
    /\ branch' = AuditTarget
    /\ out' = Append(out, Banner(AuditTarget))
    /\ calls' = calls + 1
    /\ pc' = "checkout"
    /\ UNCHANGED <<AUTO_FIX, fs, cur, gitListing, caller, branches, bi, missing, fi,
                   report, entry, reached, audits, cmds, failed>>

\* line 55: check_branch returns to its direct caller
AuditReturn ==
    /\ pc = "folders"
    /\ fi > NFolders
    /\ caller = "harness"
    /\ audits' = Append(audits, AuditRecord)
    /\ pc' = "idle"
    /\ UNCHANGED <<AUTO_FIX, fs, cur, gitListing, caller, branches, bi, branch, missing,
                   fi, report, out, calls, entry, reached, cmds, failed>>

InitAudit ==
    /\ AUTO_FIX \in BOOLEAN
    /\ gitListing \in AuditListings
    /\ cur = CurrentOf(gitListing)
    /\ fs \in (IF cur = AuditTarget THEN Trees ELSE {FullTree})
    /\ pc = "idle"
    /\ caller = "harness"
    /\ branches = << >>
    /\ bi = 0
    /\ branch = << >>
    /\ missing = << >>
    /\ fi = 0
    /\ report = << >>
    /\ out = << >>
    /\ calls = 0
    /\ entry = fs
    /\ reached = << >>
    /\ audits = << >>
    /\ cmds = << >>
    /\ failed = FALSE

NextAudit ==
    \/ AuditCall
    \/ CheckoutOk
    \/ CheckoutFail
    \/ FolderMissing
    \/ FolderPresent
    \/ AuditReturn

SpecAudit == InitAudit /\ [][NextAudit]_vars

-----------------------------------------------------------------------------
(* Properties of check_branch, checked under SpecAudit *)

Range(q) == {q[i] : i \in DOMAIN q}
Count(q, x) == Cardinality({i \in DOMAIN q : q[i] = x})
FolderAt(i) == REQUIRED_STRUCTURE[i].folder
PathOf(i, j) == FolderAt(i) \o "/" \o FilesOf(i)[j]
ReportedFolder(a, F) == ("Missing folder: " \o F) \in Range(a.missing)
ReportedFile(a, p) == ("Missing file: " \o p) \in Range(a.missing)

\* C1: with auto-fix on, an audit that follows an audit of the same branch, with
\* the tree untouched in between, returns an empty missing-item list.
C1_SecondRunEmpty ==
    \A k \in 1 .. (Len(audits) - 1) :
        (/\ AUTO_FIX
         /\ audits[k + 1].branch = audits[k].branch
         /\ audits[k + 1].before = audits[k].after)
        => audits[k + 1].missing = << >>

\* C2: with auto-fix off an audit creates nothing: a manifest folder that was
\* absent is absent afterwards, a required file that was absent from an existing
\* folder is absent afterwards, and the set of existing paths is the one right
\* after the checkout, during the audit and when it returns.
C2_ReportOnlyCreatesNothing ==
    ~AUTO_FIX =>
        /\ pc = "folders" => ExistingPaths(fs) = ExistingPaths(entry)
        /\ \A k \in DOMAIN audits :
              LET a == audits[k]
              IN  /\ ExistingPaths(a.after) = ExistingPaths(a.before)
                  /\ \A i \in 1 .. NFolders :
                        /\ ~Present(a.before, FolderAt(i)) => ~Present(a.after, FolderAt(i))
                        /\ \A j \in DOMAIN FilesOf(i) :
                              (Present(a.before, FolderAt(i)) /\ ~Present(a.before, PathOf(i, j)))
                              => ~Present(a.after, PathOf(i, j))

\* an audit without auto-fix met a missing folder and a missing file of an existing folder
C2_Witness ==
    /\ ~AUTO_FIX
    /\ \E k \in DOMAIN audits :
          /\ \E i \in 1 .. NFolders : ~Present(audits[k].before, FolderAt(i))
          /\ \E i \in 1 .. NFolders : \E j \in DOMAIN FilesOf(i) :
                /\ Present(audits[k].before, FolderAt(i))
                /\ ~Present(audits[k].before, PathOf(i, j))

\* C3: a manifest folder that is absent when the audit starts is reported as
\* "Missing folder: F" in both modes, and with auto-fix on the folder and its
\* parent folders exist when the audit returns.
C3_MissingFolderReportedAndCreated ==
    \A k \in DOMAIN audits : \A i \in 1 .. NFolders :
        LET a == audits[k]
            F == FolderAt(i)
        IN  ~Present(a.before, F) =>
                /\ ReportedFolder(a, F)
                /\ AUTO_FIX => \A p \in AncOf[F] \cup {F} : a.after[p] = DIR

\* an audit with auto-fix met resources/models with its parent missing too
C3_Witness ==
    /\ AUTO_FIX
    /\ \E k \in DOMAIN audits :
          /\ ~Present(audits[k].before, "resources")
          /\ ~Present(audits[k].before, "resources/models")

\* C4 as stated: a required file missing from an existing folder is reported as
\* "Missing file: F/f" and, with auto-fix on, exists afterwards with content equal
\* to "# Auto-generated placeholder for f".
C4_PlaceholderTextOnly ==
    \A k \in DOMAIN audits : \A i \in 1 .. NFolders : \A j \in DOMAIN FilesOf(i) :
        LET a == audits[k]
        IN  (Present(a.before, FolderAt(i)) /\ ~Present(a.before, PathOf(i, j))) =>
                /\ ReportedFile(a, PathOf(i, j))
                /\ AUTO_FIX =>
                      a.after[PathOf(i, j)] =
                          File("# Auto-generated placeholder for " \o FilesOf(i)[j])

\* C4 amended: a required file missing from an existing folder is reported as
\* "Missing file: F/f" and, with auto-fix on, exists afterwards with content equal
\* to "# Auto-generated placeholder for f" followed by a newline.
C4_PlaceholderLine ==
    \A k \in DOMAIN audits : \A i \in 1 .. NFolders : \A j \in DOMAIN FilesOf(i) :
        LET a == audits[k]
        IN  (Present(a.before, FolderAt(i)) /\ ~Present(a.before, PathOf(i, j))) =>
                /\ ReportedFile(a, PathOf(i, j))
                /\ AUTO_FIX =>
                      a.after[PathOf(i, j)] =
                          File("# Auto-generated placeholder for " \o FilesOf(i)[j] \o "\n")

\* an audit with auto-fix met an existing folder with a required file missing
C4_Witness ==
    /\ AUTO_FIX
    /\ \E k \in DOMAIN audits : \E i \in 1 .. NFolders : \E j \in DOMAIN FilesOf(i) :
          /\ Present(audits[k].before, FolderAt(i))
          /\ ~Present(audits[k].before, PathOf(i, j))

Conformant(fsv) == ManifestFolders \cup FilePaths \subseteq ExistingPaths(fsv)

\* C5: an audit of a tree that holds every manifest folder and every required
\* file returns the empty list and leaves the tree as it was, in both modes.
C5_ConformantTreeIsClean ==
    \A k \in DOMAIN audits :
        Conformant(audits[k].before) =>
            /\ audits[k].missing = << >>
            /\ audits[k].after = audits[k].before

\* an audit with auto-fix ran on a conformant tree
C5_Witness ==
    /\ AUTO_FIX
    /\ \E k \in DOMAIN audits : Conformant(audits[k].before)

\* C9: a manifest folder that does not exist when the loop reaches it gets exactly
\* one entry, "Missing folder: F"; none of its required files is reported and none
\* is created in that audit, also when auto-fix has just created the folder.
C9_MissingFolderSkipsItsFiles ==
    \A k \in DOMAIN audits : \A i \in 1 .. NFolders :
        LET a == audits[k]
        IN  ~a.reached[i] =>
                /\ Count(a.missing, "Missing folder: " \o FolderAt(i)) = 1
                /\ \A j \in DOMAIN FilesOf(i) :
                      /\ ~ReportedFile(a, PathOf(i, j))
                      /\ ~Present(a.after, PathOf(i, j))

\* an audit with auto-fix created a missing folder that has required files
C9_Witness ==
    /\ AUTO_FIX
    /\ \E k \in DOMAIN audits : \E i \in 1 .. NFolders :
          /\ ~audits[k].reached[i]
          /\ FilesOf(i) # << >>
          /\ Present(audits[k].after, FolderAt(i))

\* C10 as stated: with auto-fix on, whatever was there before the audit is there
\* unchanged after it, and every path the audit creates or writes is one it
\* reported as missing.
C10_WritesOnlyReported ==
    AUTO_FIX =>
        \A k \in DOMAIN audits : \A p \in AllPaths :
            LET a == audits[k]
            IN  /\ Present(a.before, p) => a.after[p] = a.before[p]
                /\ a.after[p] # a.before[p] => (ReportedFolder(a, p) \/ ReportedFile(a, p))

\* C10 amended: with auto-fix on, whatever was there before the audit is there
\* unchanged after it, and every path the audit creates or writes is one it
\* reported as missing or a parent folder of a folder it reported as missing.
C10_WritesOnlyReportedOrParents ==
    AUTO_FIX =>
        \A k \in DOMAIN audits : \A p \in AllPaths :
            LET a == audits[k]
            IN  /\ Present(a.before, p) => a.after[p] = a.before[p]
                /\ a.after[p] # a.before[p] =>
                      \/ ReportedFolder(a, p)
                      \/ ReportedFile(a, p)
                      \/ \E F \in ManifestFolders : p \in AncOf[F] /\ ReportedFolder(a, F)

\* an audit with auto-fix created the unlisted parent folder beside files that were there
C10_Witness ==
    /\ AUTO_FIX
    /\ \E k \in DOMAIN audits :
          /\ ~Present(audits[k].before, "resources")
          /\ Present(audits[k].after, "resources")
          /\ \E p \in FilePaths : Present(audits[k].before, p)

-----------------------------------------------------------------------------
(* Properties of main, checked under Spec *)

NonEmpty(names) == SelectSeq(names, LAMBDA b : b # << >>)
Reports(o) == {i \in DOMAIN o : o[i].kind = "report"}
Headers(o) == {i \in DOMAIN o : o[i].kind = "header"}

\* C6: once the listing is parsed, the names main goes on to audit are exactly
\* the local branch names of the listing, in listing order.
C6_AuditedAreLocalBranches ==
    pc = "loop" => NonEmpty(branches) = LocalNames(gitListing)

\* C7: once a version-control command has failed the run is aborted and takes no
\* further step: nothing is checked out or audited afterwards, and neither the
\* report nor its header has been printed.
C7_FailureIsFatal ==
    /\ [](failed =>
            /\ pc = "aborted"
            /\ Reports(out) = {}
            /\ Headers(out) = {}
            /\ (cmds = <<[cmd |-> "branch -a"]>> \/ Len(audits) = Len(cmds) - 2))
    /\ [][~failed]_vars

\* a checkout failed while a later branch was still waiting
C7_Witness ==
    /\ failed
    /\ pc = "aborted"
    /\ Len(cmds) > 1
    /\ bi < Len(branches)
    /\ branches[bi + 1] # << >>

\* C8: when the run ends without a failure, the branches were listed once, then
\* the non-empty names were audited one after another in listing order, each
\* audit starting with its checkout, and the report was printed once, last, and
\* maps each audited name to the list its audit returned; before the end no
\* report is printed, and at most one audit is ever in progress.
C8_SequentialAuditsThenOneReport ==
    LET names == NonEmpty(branches)
        n == Len(names)
    IN  /\ Reports(out) # {} => pc = "done"
        /\ (cmds # << >> /\ ~failed) => Len(cmds) - 1 - Len(audits) \in {0, 1}
        /\ pc = "done" =>
              /\ cmds = <<[cmd |-> "branch -a"]>> \o
                        [k \in 1 .. n |-> [cmd |-> "checkout", branch |-> names[k]]]
              /\ Len(audits) = n
              /\ \A k \in 1 .. n : audits[k].branch = names[k] /\ audits[k].call = k
              /\ out = [k \in 1 .. n |-> [kind |-> "banner", branch |-> names[k]]] \o
                       << [kind |-> "header"],
                          [kind |-> "report",
                           report |-> [k \in 1 .. n |->
                                          [branch |-> names[k],
                                           missing |-> audits[k].missing]]] >>

\* a run ended after two audits that returned different lists
C8_Witness ==
    /\ pc = "done"
    /\ Len(audits) = 2
    /\ audits[1].missing # audits[2].missing

====
